---------------------------- MODULE Spec2Model ----------------------------
(***************************************************************************)
(* Configuration resolution of the build orchestrator                      *)
(* (src/bootstrap/config.rs): Config::parse as a state machine.            *)
(*                                                                         *)
(* One run of Config::parse is one behaviour: the inputs (the Flags the    *)
(* command line was parsed into, the environment bootstrap.py sets, the    *)
(* filesystem, the config.toml text) are fixed by Init, and each action is *)
(* one block of Config::parse in source order.  pc is the position in      *)
(* Config::parse; "done" is the return of the record, "exit2" is           *)
(* process::exit(2), "panic" is an unwinding panic (t!, expect, panic!).   *)
(*                                                                         *)
(* Text that the code inspects (triples, paths) is a sequence of           *)
(* one-character strings; text that is only stored is a TLA+ string.       *)
(***************************************************************************)
EXTENDS Integers, Sequences, FiniteSets, TLC

VARIABLES
    pc,      \* position in Config::parse
    flags,   \* Flags::parse(&args): the overrides object
    env,     \* the environment variables default_opts reads
    fs,      \* the filesystem: existing paths, whether the dry-run dir can be made
    file,    \* what is stored at flags.config: readable?, well-formed?, its table
    toml,    \* the local `toml`: the deserialized TomlConfig
    locals,  \* the Option locals of Config::parse (lines 582-596)
    config   \* the record under construction

vars == <<pc, flags, env, fs, file, toml, locals, config>>
inputs == <<flags, env, fs, file>>

---------------------------------------------------------------------------
(* Bounds of the model. *)

\* largest verbosity level an input carries
MaxVerbose == 2
\* largest debuginfo level an input carries
MaxLevel == 2
\* longest host / target list an input carries
MaxList == 1
\* the largest job count of the command line
MaxJobs == 2
\* the largest number of CPUs of the host
MaxCpus == 2

---------------------------------------------------------------------------
(* Option<T>: None is the empty tuple, Some(x) the one-element tuple. *)

None == <<>>
Some(x) == <<x>>
IsSome(o) == o # <<>>
IsNone(o) == o = <<>>
Unwrap(o) == o[1]
\* Option::unwrap_or
UnwrapOr(o, d) == IF IsSome(o) THEN o[1] ELSE d
\* Option::or
OptOr(a, b) == IF IsSome(a) THEN a ELSE b
Option(S) == {None} \cup {Some(x) : x \in S}

Max(a, b) == IF a >= b THEN a ELSE b
Last(s) == s[Len(s)]
Range(s) == {s[i] : i \in DOMAIN s}
\* the sequences over S of length at most n
SeqUpTo(S, n) == UNION {[1..k -> S] : k \in 0..n}

---------------------------------------------------------------------------
(* Text *)

\* the characters of s from i on that come before the next "/"
RECURSIVE SplitSlash(_, _, _)
SplitSlash(p, i, cur) ==
    IF i > Len(p) THEN (IF cur = <<>> THEN <<>> ELSE <<cur>>)
    ELSE IF p[i] = "/"
         THEN (IF cur = <<>> THEN <<>> ELSE <<cur>>) \o SplitSlash(p, i + 1, <<>>)
         ELSE SplitSlash(p, i + 1, Append(cur, p[i]))

NotCurDir(c) == c # <<".">>
IsAbsolute(p) == Len(p) > 0 /\ p[1] = "/"

RECURSIVE JoinSlash(_)
JoinSlash(cs) ==
    IF cs = <<>> THEN <<>>
    ELSE IF Len(cs) = 1 THEN cs[1]
    ELSE cs[1] \o <<"/">> \o JoinSlash(Tail(cs))

\* Path::components().collect(): repeated and trailing separators and
\* interior "." components go, a leading "." and the root stay
normalize_python_path(p) ==
    LET raw == SplitSlash(p, 1, <<>>)
        lead == IF ~IsAbsolute(p) /\ raw # <<>> /\ raw[1] = <<".">> THEN <<raw[1]>> ELSE <<>>
        rest == lead \o SelectSeq(raw, NotCurDir)
    IN  (IF IsAbsolute(p) THEN <<"/">> ELSE <<>>) \o JoinSlash(rest)

\* Path::join: an absolute argument replaces the base
PathJoin(base, s) ==
    IF IsAbsolute(s) THEN s
    ELSE IF base = <<>> THEN s
    ELSE IF Last(base) = "/" THEN base \o s
    ELSE base \o <<"/">> \o s

\* Path::file_name: the last component, unless the path ends in ".." or has none
file_name(p) ==
    LET cs == SelectSeq(SplitSlash(p, 1, <<>>), NotCurDir)
    IN  IF cs = <<>> THEN None
        ELSE IF Last(cs) = <<".", ".">> THEN None
        ELSE Some(Last(cs))

\* the position of the last "." of a name, 0 when it has none
LastDot(n) ==
    LET ds == {i \in DOMAIN n : n[i] = "."}
    IN  IF ds = {} THEN 0 ELSE CHOOSE i \in ds : \A j \in ds : j <= i

\* a stem that keeps the extension
StemKeepsExtension(p) == file_name(p)

\* Path::file_stem: the file name up to its last ".", the whole name when the
\* only "." leads it or there is none
file_stem(p) ==
    LET fname == file_name(p)
    IN  IF IsNone(fname) THEN None
        ELSE LET n == Unwrap(fname)
                 d == LastDot(n)
             IN  IF d <= 1 THEN Some(n) ELSE Some(SubSeq(n, 1, d - 1))

\* str::contains
Contains(s, needle) ==
    \E i \in 1..(Len(s) - Len(needle) + 1) : SubSeq(s, i, i + Len(needle) - 1) = needle

---------------------------------------------------------------------------
(* cache::INTERNER and TargetSelection *)

\* INTERNER.intern_str: the handle of a string; two handles are equal exactly
\* when their strings are
intern_str(s) == [interned |-> s]
\* the string behind a handle
Deref(h) == h.interned

\* path.exists()
Exists(filesystem, p) == p \in filesystem.exists

\* from_user panics ("Target specification file has no file stem")
from_user_panics(filesystem, selection) ==
    Exists(filesystem, selection) /\ IsNone(file_stem(selection))

from_user(filesystem, selection) ==
    IF Exists(filesystem, selection)
    THEN [triple |-> intern_str(Unwrap(file_stem(selection))),
          file   |-> Some(intern_str(selection))]
    ELSE [triple |-> intern_str(selection), file |-> None]

\* #[derive(PartialEq, Eq, Hash)] on TargetSelection: field by field
TripleOnlyEq(a, b) == a.triple = b.triple
TargetSelectionEq(a, b) == a.triple = b.triple /\ a.file = b.file

\* impl PartialEq<&str> for TargetSelection
TargetSelectionEqStr(a, s) == Deref(a.triple) = s

\* TargetSelection::default()
TargetSelectionDefault == [triple |-> intern_str(<<>>), file |-> None]

\* HashMap<TargetSelection, Target>::insert: the entry of an equal key is
\* replaced.  A map is a set of <<key, value>> pairs with pairwise unequal keys.
MapInsert(m, k, v) == {e \in m : ~TargetSelectionEq(e[1], k)} \cup {<<k, v>>}
MapKeys(m) == {e[1] : e \in m}

---------------------------------------------------------------------------
(* The schema of config.toml: the fields of the Deserialize structs under  *)
(* rename_all = "kebab-case".  A deserialized struct is the function from  *)
(* its keys to Option values.                                              *)

TomlConfigKeys == {"build", "install", "llvm", "rust", "target", "dist"}

BuildKeys ==
    {"build", "host", "target", "build-dir", "cargo", "rustc", "rustfmt", "docs",
     "compiler-docs", "submodules", "fast-submodules", "gdb", "nodejs", "python",
     "locked-deps", "vendor", "full-bootstrap", "extended", "tools", "verbose",
     "sanitizers", "profiler", "cargo-native-static", "low-priority",
     "configure-args", "local-rebuild", "print-step-timings"}

InstallKeys ==
    {"prefix", "sysconfdir", "docdir", "bindir", "libdir", "mandir", "datadir",
     "infodir", "localstatedir"}

LlvmKeys ==
    {"skip-rebuild", "optimize", "thin-lto", "release-debuginfo", "assertions",
     "ccache", "version-check", "static-libstdcpp", "ninja", "targets",
     "experimental-targets", "link-jobs", "link-shared", "version-suffix",
     "clang-cl", "cflags", "cxxflags", "ldflags", "use-libcxx", "use-linker",
     "allow-old-toolchain"}

DistKeys ==
    {"sign-folder", "gpg-password-file", "upload-addr", "src-tarball", "missing-tools"}

RustKeys ==
    {"optimize", "debug", "codegen-units", "codegen-units-std", "debug-assertions",
     "debug-assertions-std", "debuginfo-level", "debuginfo-level-rustc",
     "debuginfo-level-std", "debuginfo-level-tools", "debuginfo-level-tests",
     "backtrace", "incremental", "parallel-compiler", "default-linker", "channel",
     "musl-root", "rpath", "verbose-tests", "optimize-tests", "codegen-tests",
     "ignore-git", "dist-src", "save-toolstates", "codegen-backends", "lld",
     "use-lld", "llvm-tools", "deny-warnings", "backtrace-on-ice", "verify-llvm-ir",
     "thin-lto-import-instr-limit", "remap-debuginfo", "jemalloc",
     "test-compare-mode", "llvm-libunwind", "control-flow-guard",
     "new-symbol-mangling"}

TomlTargetKeys ==
    {"cc", "cxx", "ar", "ranlib", "linker", "llvm-config", "llvm-filecheck",
     "android-ndk", "crt-static", "musl-root", "musl-libdir", "wasi-root",
     "qemu-rootfs", "no-std"}

\* the keys a section of the given name admits
SectionKeys(name) ==
    CASE name = "build"   -> BuildKeys
      [] name = "install" -> InstallKeys
      [] name = "llvm"    -> LlvmKeys
      [] name = "rust"    -> RustKeys
      [] name = "dist"    -> DistKeys

\* deny_unknown_fields: a table deserializes only if every key in it, in its
\* sections and in its per-target entries is a field of the struct
AcceptAnyKey(table) == TRUE
DenyUnknownFields(table) ==
    /\ DOMAIN table \subseteq TomlConfigKeys
    /\ \A s \in DOMAIN table \ {"target"} : DOMAIN table[s] \subseteq SectionKeys(s)
    /\ "target" \in DOMAIN table =>
          \A t \in DOMAIN table["target"] : DOMAIN table["target"][t] \subseteq TomlTargetKeys

\* a struct of Option fields from the table of its section: a key that is
\* there gives Some(value), a field without a key None
Deserialize(section, keys) ==
    [k \in keys |-> IF k \in DOMAIN section THEN Some(section[k]) ELSE None]

\* Default::default() of a section struct: every field None
DefaultSection(keys) == [k \in keys |-> None]

\* a section Option of TomlConfig
SectionOf(table, name) ==
    IF name \in DOMAIN table THEN Some(Deserialize(table[name], SectionKeys(name))) ELSE None

\* TomlConfig::default()
TomlConfigDefault ==
    [build |-> None, install |-> None, llvm |-> None, rust |-> None,
     target |-> None, dist |-> None]

\* toml::from_str::<TomlConfig> on what the file holds: Ok(table) or Err
from_str_ok(f) == f.wellformed /\ DenyUnknownFields(f.table)

from_str(f) ==
    [build   |-> SectionOf(f.table, "build"),
     install |-> SectionOf(f.table, "install"),
     llvm    |-> SectionOf(f.table, "llvm"),
     rust    |-> SectionOf(f.table, "rust"),
     target  |-> IF "target" \in DOMAIN f.table
                 THEN Some([t \in DOMAIN f.table["target"] |->
                               Deserialize(f.table["target"][t], TomlTargetKeys)])
                 ELSE None,
     dist    |-> SectionOf(f.table, "dist")]

\* the local `build`: toml.build.clone().unwrap_or_default()
BuildOf(t) == UnwrapOr(t.build, DefaultSection(BuildKeys))

---------------------------------------------------------------------------
(* Helpers of Config::parse *)

\* fn set<T>(field: &mut T, val: Option<T>): the new value of the field
set(field, val) == IF IsSome(val) THEN Unwrap(val) ELSE field

\* Option::map
OptMap(Op(_), o) == IF IsSome(o) THEN Some(Op(Unwrap(o))) ELSE None

\* the count as given, 0 included
ThreadsAsGiven(cpus, v) == v
\* fn threads_from_config(v: u32) -> u32, with num_cpus::get() = cpus
threads_from_config(cpus, v) == IF v = 0 THEN cpus ELSE v

\* Target::default(): every path None, no_std false
TargetDefault ==
    [llvm_config |-> None, llvm_filecheck |-> None, cc |-> None, cxx |-> None,
     ar |-> None, ranlib |-> None, linker |-> None, ndk |-> None,
     crt_static |-> None, musl_root |-> None, musl_libdir |-> None,
     wasi_root |-> None, qemu_rootfs |-> None, no_std |-> FALSE]

\* only "-none" looked for
NoStdOnlyNone(triple) ==
    IF Contains(triple, <<"-", "n", "o", "n", "e">>)
    THEN [TargetDefault EXCEPT !.no_std = TRUE]
    ELSE TargetDefault
\* Target::from_triple
from_triple(triple) ==
    IF Contains(triple, <<"-", "n", "o", "n", "e">>) \/ Contains(triple, <<"n", "v", "p", "t", "x">>)
    THEN [TargetDefault EXCEPT !.no_std = TRUE]
    ELSE TargetDefault

---------------------------------------------------------------------------
(* The Config record *)

ConfigBoolFields ==
    {"ninja_in_file", "submodules", "fast_submodules", "compiler_docs", "docs",
     "locked_deps", "vendor", "full_bootstrap", "extended", "sanitizers", "profiler",
     "ignore_git", "json_output", "test_compare_mode", "llvm_libunwind",
     "skip_only_host_steps", "incremental", "dry_run", "deny_warnings",
     "backtrace_on_ice", "llvm_skip_rebuild", "llvm_assertions", "llvm_optimize",
     "llvm_thin_lto", "llvm_release_debuginfo", "llvm_version_check",
     "llvm_static_stdcpp", "llvm_link_shared", "use_lld", "lld_enabled",
     "llvm_tools_enabled", "llvm_use_libcxx", "rust_optimize",
     "rust_debug_assertions", "rust_debug_assertions_std", "rust_rpath",
     "rustc_parallel", "rust_optimize_tests", "rust_dist_src", "rust_verify_llvm_ir",
     "rust_remap_debuginfo", "rust_new_symbol_mangling", "local_rebuild", "jemalloc",
     "control_flow_guard", "backtrace", "low_priority", "verbose_tests",
     "print_step_timings", "missing_tools", "codegen_tests", "cargo_native_static"}

ConfigOptionFields ==
    {"ccache", "tools", "rustc_error_format", "on_fail", "stage", "jobs",
     "llvm_clang_cl", "llvm_targets", "llvm_experimental_targets", "llvm_link_jobs",
     "llvm_version_suffix", "llvm_use_linker", "llvm_allow_old_toolchain",
     "llvm_cflags", "llvm_cxxflags", "llvm_ldflags", "rust_codegen_units",
     "rust_codegen_units_std", "rustc_default_linker",
     "rust_thin_lto_import_instr_limit", "dist_sign_folder", "dist_upload_addr",
     "dist_gpg_password_file", "save_toolstates", "musl_root", "prefix",
     "sysconfdir", "datadir", "docdir", "libdir", "mandir", "nodejs", "gdb",
     "python", "initial_rustfmt"}

ConfigVecFields ==
    {"exclude", "keep_stage", "rust_codegen_backends", "hosts", "targets",
     "configure_args"}

ConfigLevelFields ==
    {"verbose", "rust_debuginfo_level_rustc", "rust_debuginfo_level_std",
     "rust_debuginfo_level_tools", "rust_debuginfo_level_tests"}

ConfigPathFields == {"src", "out", "bindir", "initial_cargo", "initial_rustc"}

\* Config::default(): #[derive(Default)]
ConfigDefault ==
    [f \in ConfigBoolFields |-> FALSE] @@ [f \in ConfigOptionFields |-> None]
    @@ [f \in ConfigVecFields |-> <<>>] @@ [f \in ConfigLevelFields |-> 0]
    @@ [f \in ConfigPathFields |-> <<>>]
    @@ [channel |-> "", cmd |-> "", build |-> TargetSelectionDefault, target_config |-> {}]

\* the environment variables that must be set (expect, path_from_python)
RequiredEnv == {"BUILD", "SRC", "BUILD_DIR", "RUSTC", "CARGO"}

\* Config::path_from_python on a variable that is set
path_from_python(e, var_key) == normalize_python_path(Unwrap(e[var_key]))

\* RUSTFMT read like the required variables
RustfmtRequired(e, filesystem) ==
    \/ \E v \in RequiredEnv \cup {"RUSTFMT"} : IsNone(e[v])
    \/ IsSome(e["BUILD"]) /\ from_user_panics(filesystem, Unwrap(e["BUILD"]))
\* Config::default_opts panics: a required variable is not set, or BUILD names
\* an existing path without a file stem
default_opts_panics(e, filesystem) ==
    \/ \E v \in RequiredEnv : IsNone(e[v])
    \/ IsSome(e["BUILD"]) /\ from_user_panics(filesystem, Unwrap(e["BUILD"]))

\* Config::default_opts
default_opts(e, filesystem) ==
    [ConfigDefault EXCEPT
        !.llvm_optimize = TRUE,
        !.ninja_in_file = TRUE,
        !.llvm_version_check = TRUE,
        !.backtrace = TRUE,
        !.rust_optimize = TRUE,
        !.rust_optimize_tests = TRUE,
        !.submodules = TRUE,
        !.fast_submodules = TRUE,
        !.docs = TRUE,
        !.rust_rpath = TRUE,
        !.channel = "dev",
        !.codegen_tests = TRUE,
        !.ignore_git = FALSE,
        !.rust_dist_src = TRUE,
        !.rust_codegen_backends = <<intern_str("llvm")>>,
        !.deny_warnings = TRUE,
        !.missing_tools = FALSE,
        !.build = from_user(filesystem, Unwrap(e["BUILD"])),
        !.src = path_from_python(e, "SRC"),
        !.out = path_from_python(e, "BUILD_DIR"),
        !.initial_rustc = path_from_python(e, "RUSTC"),
        !.initial_cargo = path_from_python(e, "CARGO"),
        !.initial_rustfmt = OptMap(normalize_python_path, e["RUSTFMT"])]

\* the Option locals of Config::parse before the sections are read
LocalsInit ==
    [llvm_skip_rebuild |-> None, llvm_assertions |-> None, debug |-> None,
     debug_assertions |-> None, debug_assertions_std |-> None,
     debuginfo_level |-> None, debuginfo_level_rustc |-> None,
     debuginfo_level_std |-> None, debuginfo_level_tools |-> None,
     debuginfo_level_tests |-> None, optimize |-> None, ignore_git |-> None]

TmpDryRun == <<"t", "m", "p", "-", "d", "r", "y", "-", "r", "u", "n">>
Bin == <<"b", "i", "n">>

---------------------------------------------------------------------------
(* Config::parse, block by block *)

\* line 484: Config::default_opts() returns
DefaultOpts ==
    /\ pc = "default_opts"
    /\ ~default_opts_panics(env, fs)
    /\ config' = default_opts(env, fs)
    /\ pc' = "flags"
    /\ UNCHANGED <<inputs, toml, locals>>

\* line 484: Config::default_opts() panics
DefaultOptsPanic ==
    /\ pc = "default_opts"
    /\ default_opts_panics(env, fs)
    /\ pc' = "panic"
    /\ UNCHANGED <<inputs, toml, locals, config>>

\* lines 485-498: the scalar fields of the flags
ApplyFlags ==
    /\ pc = "flags"
    /\ config' = [config EXCEPT
          !.exclude = flags.exclude,
          !.rustc_error_format = flags.rustc_error_format,
          !.json_output = flags.json_output,
          !.on_fail = flags.on_fail,
          !.stage = flags.stage,
          !.jobs = IF IsSome(flags.jobs)
                   THEN Some(threads_from_config(env.cpus, Unwrap(flags.jobs)))
                   ELSE None,
          !.cmd = flags.cmd,
          !.incremental = flags.incremental,
          !.dry_run = flags.dry_run,
          !.keep_stage = flags.keep_stage,
          !.bindir = Bin,
          !.deny_warnings = set(@, flags.deny_warnings)]
    /\ pc' = "dry_run"
    /\ UNCHANGED <<inputs, toml, locals>>

\* lines 500-504: the output directory of a dry run
DryRun ==
    /\ pc = "dry_run"
    /\ config.dry_run => fs.mkdir_ok
    /\ config' = IF config.dry_run
                 THEN [config EXCEPT !.out = PathJoin(@, TmpDryRun)]
                 ELSE config
    /\ pc' = "load"
    /\ UNCHANGED <<inputs, toml, locals>>

\* line 502: t!(fs::create_dir_all(&dir)) panics
DryRunPanic ==
    /\ pc = "dry_run"
    /\ config.dry_run
    /\ ~fs.mkdir_ok
    /\ pc' = "panic"
    /\ UNCHANGED <<inputs, toml, locals, config>>

\* lines 506-521: no file, or a file that reads and deserializes
LoadToml ==
    /\ pc = "load"
    /\ IsSome(flags.config) => file.readable /\ from_str_ok(file)
    /\ toml' = IF IsSome(flags.config) THEN from_str(file) ELSE TomlConfigDefault
    /\ pc' = "hosts"
    /\ UNCHANGED <<inputs, locals, config>>

\* line 508: t!(fs::read_to_string(&file)) panics
LoadTomlPanic ==
    /\ pc = "load"
    /\ IsSome(flags.config)
    /\ ~file.readable
    /\ pc' = "panic"
    /\ UNCHANGED <<inputs, toml, locals, config>>

\* lines 511-518: toml::from_str fails, process::exit(2)
LoadTomlExit ==
    /\ pc = "load"
    /\ IsSome(flags.config)
    /\ file.readable
    /\ ~from_str_ok(file)
    /\ pc' = "exit2"
    /\ UNCHANGED <<inputs, toml, locals, config>>

\* file_host.iter().map(|h| TargetSelection::from_user(h)).collect()
FromUserAll(filesystem, list) == [i \in DOMAIN list |-> from_user(filesystem, list[i])]

\* lines 530-536 and 537-545: the command line's list, else the file's, else
\* the fallback
FileListFirst(arg, file_list, fallback, filesystem) ==
    IF IsSome(file_list) THEN FromUserAll(filesystem, Unwrap(file_list))
    ELSE IF IsSome(arg) THEN Unwrap(arg)
    ELSE fallback
ResolveList(arg, file_list, fallback, filesystem) ==
    IF IsSome(arg) THEN Unwrap(arg)
    ELSE IF IsSome(file_list) THEN FromUserAll(filesystem, Unwrap(file_list))
    ELSE fallback

\* a from_user of lines 533 and 540 panics
ResolveListPanics(arg, file_list, filesystem) ==
    /\ IsNone(arg)
    /\ IsSome(file_list)
    /\ \E i \in DOMAIN Unwrap(file_list) : from_user_panics(filesystem, Unwrap(file_list)[i])

\* one of the two lists panics
ResolveHostsPanics(fl, build, filesystem) ==
    \/ ResolveListPanics(fl.host, build["host"], filesystem)
    \/ ResolveListPanics(fl.target, build["target"], filesystem)

\* line 528
SkipWithoutTargets(has_hosts, has_targets) == ~has_hosts
SkipOnlyHostSteps(has_hosts, has_targets) == ~has_hosts /\ has_targets

\* lines 523-545: the host and target lists
ResolveHosts ==
    /\ pc = "hosts"
    /\ LET build == BuildOf(toml)
           has_hosts == IsSome(build["host"]) \/ IsSome(flags.host)
           has_targets == IsSome(build["target"]) \/ IsSome(flags.target)
           hosts == ResolveList(flags.host, build["host"], <<config.build>>, fs)
       IN  /\ ~ResolveHostsPanics(flags, build, fs)
           /\ config' = [config EXCEPT
                 !.skip_only_host_steps = SkipOnlyHostSteps(has_hosts, has_targets),
                 !.hosts = hosts,
                 !.targets = ResolveList(flags.target, build["target"], hosts, fs)]
    /\ pc' = "build"
    /\ UNCHANGED <<inputs, toml, locals>>

\* lines 533, 540: a from_user panics; the record is dropped by the unwinding
ResolveHostsPanic ==
    /\ pc = "hosts"
    /\ ResolveHostsPanics(flags, BuildOf(toml), fs)
    /\ pc' = "panic"
    /\ UNCHANGED <<inputs, toml, locals, config>>

\* lines 560 and 567: set(&mut config.verbose, build.verbose), then the
\* larger of that and the command line's level
VerboseFileWins(field, from_file, from_flags) == set(from_flags, from_file)
Verbose(field, from_file, from_flags) == Max(set(field, from_file), from_flags)

\* lines 547-567: the build section
ApplyBuild ==
    /\ pc = "build"
    /\ LET build == BuildOf(toml)
       IN  config' = [config EXCEPT
              !.nodejs = build["nodejs"],
              !.gdb = build["gdb"],
              !.python = build["python"],
              !.low_priority = set(@, build["low-priority"]),
              !.compiler_docs = set(@, build["compiler-docs"]),
              !.docs = set(@, build["docs"]),
              !.submodules = set(@, build["submodules"]),
              !.fast_submodules = set(@, build["fast-submodules"]),
              !.locked_deps = set(@, build["locked-deps"]),
              !.vendor = set(@, build["vendor"]),
              !.full_bootstrap = set(@, build["full-bootstrap"]),
              !.extended = set(@, build["extended"]),
              !.tools = build["tools"],
              !.verbose = Verbose(@, build["verbose"], flags.verbose),
              !.sanitizers = set(@, build["sanitizers"]),
              !.profiler = set(@, build["profiler"]),
              !.cargo_native_static = set(@, build["cargo-native-static"]),
              !.configure_args = set(@, build["configure-args"]),
              !.local_rebuild = set(@, build["local-rebuild"]),
              !.print_step_timings = set(@, build["print-step-timings"])]
    /\ pc' = "install"
    /\ UNCHANGED <<inputs, toml, locals>>

\* bindir assigned like the fields around it
ApplyInstallDirect ==
    /\ pc = "install"
    /\ config' = IF IsSome(toml.install)
                 THEN LET install == Unwrap(toml.install)
                      IN  [config EXCEPT
                             !.prefix = install["prefix"],
                             !.sysconfdir = install["sysconfdir"],
                             !.datadir = install["datadir"],
                             !.docdir = install["docdir"],
                             !.bindir = install["bindir"],
                             !.libdir = install["libdir"],
                             !.mandir = install["mandir"]]
                 ELSE config
    /\ pc' = "llvm"
    /\ UNCHANGED <<inputs, toml, locals>>
\* lines 569-577: the install section
ApplyInstall ==
    /\ pc = "install"
    /\ config' = IF IsSome(toml.install)
                 THEN LET install == Unwrap(toml.install)
                      IN  [config EXCEPT
                             !.prefix = install["prefix"],
                             !.sysconfdir = install["sysconfdir"],
                             !.datadir = install["datadir"],
                             !.docdir = install["docdir"],
                             !.bindir = set(@, install["bindir"]),
                             !.libdir = install["libdir"],
                             !.mandir = install["mandir"]]
                 ELSE config
    /\ pc' = "llvm"
    /\ UNCHANGED <<inputs, toml, locals>>

\* lines 599-605: llvm.ccache is a string or a boolean
Ccache(field, val) ==
    IF IsSome(val) /\ Unwrap(val)[1] = "String" THEN Some(Unwrap(val)[2])
    ELSE IF IsSome(val) /\ Unwrap(val) = <<"Bool", TRUE>> THEN Some("ccache")
    ELSE field

\* line 608: llvm_skip_rebuild.or(llvm.skip_rebuild)
FileSkipRebuildFirst(from_flags, from_file) == OptOr(from_file, from_flags)
SkipRebuild(from_flags, from_file) == OptOr(from_flags, from_file)

\* lines 582-627: the locals, and the llvm section
ApplyLlvm ==
    /\ pc = "llvm"
    /\ IF IsSome(toml.llvm)
       THEN LET llvm == Unwrap(toml.llvm)
            IN  /\ locals' = [LocalsInit EXCEPT
                      !.llvm_skip_rebuild = SkipRebuild(flags.llvm_skip_rebuild, llvm["skip-rebuild"]),
                      !.llvm_assertions = llvm["assertions"]]
                /\ config' = [config EXCEPT
                      !.ccache = Ccache(@, llvm["ccache"]),
                      !.ninja_in_file = set(@, llvm["ninja"]),
                      !.llvm_optimize = set(@, llvm["optimize"]),
                      !.llvm_thin_lto = set(@, llvm["thin-lto"]),
                      !.llvm_release_debuginfo = set(@, llvm["release-debuginfo"]),
                      !.llvm_version_check = set(@, llvm["version-check"]),
                      !.llvm_static_stdcpp = set(@, llvm["static-libstdcpp"]),
                      !.llvm_link_shared = set(@, llvm["link-shared"]),
                      !.llvm_targets = llvm["targets"],
                      !.llvm_experimental_targets = llvm["experimental-targets"],
                      !.llvm_link_jobs = llvm["link-jobs"],
                      !.llvm_version_suffix = llvm["version-suffix"],
                      !.llvm_clang_cl = llvm["clang-cl"],
                      !.llvm_cflags = llvm["cflags"],
                      !.llvm_cxxflags = llvm["cxxflags"],
                      !.llvm_ldflags = llvm["ldflags"],
                      !.llvm_use_libcxx = set(@, llvm["use-libcxx"]),
                      !.llvm_use_linker = llvm["use-linker"],
                      !.llvm_allow_old_toolchain = llvm["allow-old-toolchain"]]
       ELSE /\ locals' = [LocalsInit EXCEPT !.llvm_skip_rebuild = flags.llvm_skip_rebuild]
            /\ config' = config
    /\ pc' = "rust"
    /\ UNCHANGED <<inputs, toml>>

\* lines 651-654: only an explicit true of the file changes the flag
IncrementalFromFile(field, val) == IF IsSome(val) THEN Unwrap(val) ELSE field
Incremental(field, val) == IF val = Some(TRUE) THEN TRUE ELSE field

\* lines 674-675: rust.codegen_units.map(threads_from_config)
CodegenUnits(cpus, val) ==
    IF IsSome(val) THEN Some(threads_from_config(cpus, Unwrap(val))) ELSE None

\* lines 629-676: the rust section
ApplyRust ==
    /\ pc = "rust"
    /\ IF IsSome(toml.rust)
       THEN LET rust == Unwrap(toml.rust)
            IN  /\ locals' = [locals EXCEPT
                      !.debug = rust["debug"],
                      !.debug_assertions = rust["debug-assertions"],
                      !.debug_assertions_std = rust["debug-assertions-std"],
                      !.debuginfo_level = rust["debuginfo-level"],
                      !.debuginfo_level_rustc = rust["debuginfo-level-rustc"],
                      !.debuginfo_level_std = rust["debuginfo-level-std"],
                      !.debuginfo_level_tools = rust["debuginfo-level-tools"],
                      !.debuginfo_level_tests = rust["debuginfo-level-tests"],
                      !.optimize = rust["optimize"],
                      !.ignore_git = rust["ignore-git"]]
                /\ config' = [config EXCEPT
                      !.rust_new_symbol_mangling = set(@, rust["new-symbol-mangling"]),
                      !.rust_optimize_tests = set(@, rust["optimize-tests"]),
                      !.codegen_tests = set(@, rust["codegen-tests"]),
                      !.rust_rpath = set(@, rust["rpath"]),
                      !.jemalloc = set(@, rust["jemalloc"]),
                      !.test_compare_mode = set(@, rust["test-compare-mode"]),
                      !.llvm_libunwind = set(@, rust["llvm-libunwind"]),
                      !.backtrace = set(@, rust["backtrace"]),
                      !.channel = set(@, rust["channel"]),
                      !.rust_dist_src = set(@, rust["dist-src"]),
                      !.verbose_tests = set(@, rust["verbose-tests"]),
                      !.incremental = Incremental(@, rust["incremental"]),
                      !.use_lld = set(@, rust["use-lld"]),
                      !.lld_enabled = set(@, rust["lld"]),
                      !.llvm_tools_enabled = set(@, rust["llvm-tools"]),
                      !.rustc_parallel = UnwrapOr(rust["parallel-compiler"], FALSE),
                      !.rustc_default_linker = rust["default-linker"],
                      !.musl_root = rust["musl-root"],
                      !.save_toolstates = rust["save-toolstates"],
                      !.deny_warnings = set(@, OptOr(flags.deny_warnings, rust["deny-warnings"])),
                      !.backtrace_on_ice = set(@, rust["backtrace-on-ice"]),
                      !.rust_verify_llvm_ir = set(@, rust["verify-llvm-ir"]),
                      !.rust_thin_lto_import_instr_limit = rust["thin-lto-import-instr-limit"],
                      !.rust_remap_debuginfo = set(@, rust["remap-debuginfo"]),
                      !.control_flow_guard = set(@, rust["control-flow-guard"]),
                      !.rust_codegen_backends =
                          IF IsSome(rust["codegen-backends"])
                          THEN [i \in DOMAIN Unwrap(rust["codegen-backends"]) |->
                                   intern_str(Unwrap(rust["codegen-backends"])[i])]
                          ELSE @,
                      !.rust_codegen_units = CodegenUnits(env.cpus, rust["codegen-units"]),
                      !.rust_codegen_units_std = CodegenUnits(env.cpus, rust["codegen-units-std"])]
       ELSE UNCHANGED <<locals, config>>
    /\ pc' = "target"
    /\ UNCHANGED <<inputs, toml>>

\* the path kept as the document gives it
SrcJoinKeeps(src, val) == val
\* lines 682-690: Some(config.src.join(s)) when the field is there
SrcJoin(src, val) == IF IsSome(val) THEN Some(PathJoin(src, Unwrap(val))) ELSE None

\* lines 680-703: the Target of one [target.<triple>] entry
TargetOf(triple, cfg, src) ==
    LET joined(key) == SrcJoin(src, cfg[key])
        target == from_triple(triple)
    IN  [target EXCEPT
            !.llvm_config = joined("llvm-config"),
            !.llvm_filecheck = joined("llvm-filecheck"),
            !.ndk = joined("android-ndk"),
            !.no_std = set(@, cfg["no-std"]),
            !.cc = cfg["cc"],
            !.cxx = cfg["cxx"],
            !.ar = cfg["ar"],
            !.ranlib = cfg["ranlib"],
            !.linker = cfg["linker"],
            !.crt_static = cfg["crt-static"],
            !.musl_root = cfg["musl-root"],
            !.musl_libdir = cfg["musl-libdir"],
            !.wasi_root = cfg["wasi-root"],
            !.qemu_rootfs = cfg["qemu-rootfs"]]

\* lines 679-706: the loop over the entries, in the order the HashMap yields
RECURSIVE InsertTargets(_, _, _, _, _)
InsertTargets(m, order, t, src, filesystem) ==
    IF order = <<>> THEN m
    ELSE InsertTargets(
            MapInsert(m, from_user(filesystem, Head(order)), TargetOf(Head(order), t[Head(order)], src)),
            Tail(order), t, src, filesystem)

\* the orders in which a HashMap of these keys can be iterated
Orders(keys) ==
    {o \in [1..Cardinality(keys) -> keys] : \A i, j \in DOMAIN o : i # j => o[i] # o[j]}

\* line 705: a from_user of a target key panics
ApplyTargetPanics(t, filesystem) ==
    IsSome(t.target) /\ \E k \in DOMAIN Unwrap(t.target) : from_user_panics(filesystem, k)

\* lines 678-707: the target section
ApplyTarget ==
    /\ pc = "target"
    /\ ~ApplyTargetPanics(toml, fs)
    /\ IF IsSome(toml.target)
       THEN \E order \in Orders(DOMAIN Unwrap(toml.target)) :
               config' = [config EXCEPT
                  !.target_config = InsertTargets(@, order, Unwrap(toml.target), config.src, fs)]
       ELSE config' = config
    /\ pc' = "dist"
    /\ UNCHANGED <<inputs, toml, locals>>

\* line 705: TargetSelection::from_user(triple) panics
ApplyTargetPanic ==
    /\ pc = "target"
    /\ ApplyTargetPanics(toml, fs)
    /\ pc' = "panic"
    /\ UNCHANGED <<inputs, toml, locals, config>>

\* lines 709-715: the dist section
ApplyDist ==
    /\ pc = "dist"
    /\ config' = IF IsSome(toml.dist)
                 THEN LET t == Unwrap(toml.dist)
                      IN  [config EXCEPT
                             !.dist_sign_folder = t["sign-folder"],
                             !.dist_gpg_password_file = t["gpg-password-file"],
                             !.dist_upload_addr = t["upload-addr"],
                             !.rust_dist_src = set(@, t["src-tarball"]),
                             !.missing_tools = set(@, t["missing-tools"])]
                 ELSE config
    /\ pc' = "infer"
    /\ UNCHANGED <<inputs, toml, locals>>

\* lines 736-742: the closure with_defaults
GlobalLevelFirst(debuginfo_level, debug, debuginfo_level_specific) ==
    UnwrapOr(OptOr(debuginfo_level, debuginfo_level_specific),
             IF debug = Some(TRUE) THEN 1 ELSE 0)
with_defaults(debuginfo_level, debug, debuginfo_level_specific) ==
    UnwrapOr(OptOr(debuginfo_level_specific, debuginfo_level),
             IF debug = Some(TRUE) THEN 1 ELSE 0)

\* lines 731-732
DebugAssertionsAlways(debug, debug_assertions) == debug = Some(TRUE)
DebugAssertions(debug, debug_assertions) == UnwrapOr(debug_assertions, debug = Some(TRUE))

\* lines 748-749: ignore_git.unwrap_or(config.channel == "dev")
IgnoreGitDefaultFalse(ignore_git, channel) == UnwrapOr(ignore_git, FALSE)
IgnoreGit(ignore_git, channel) == UnwrapOr(ignore_git, channel = "dev")

\* lines 717-751: the defaults that depend on what was read
Infer ==
    /\ pc = "infer"
    /\ LET build == BuildOf(toml)
           da == DebugAssertions(locals.debug, locals.debug_assertions)
       IN  config' = [config EXCEPT
              !.initial_rustc = set(@, build["rustc"]),
              !.initial_cargo = set(@, build["cargo"]),
              !.llvm_skip_rebuild = UnwrapOr(locals.llvm_skip_rebuild, FALSE),
              !.llvm_assertions = UnwrapOr(locals.llvm_assertions, FALSE),
              !.rust_optimize = UnwrapOr(locals.optimize, TRUE),
              !.rust_debug_assertions = da,
              !.rust_debug_assertions_std = UnwrapOr(locals.debug_assertions_std, da),
              !.rust_debuginfo_level_rustc =
                  with_defaults(locals.debuginfo_level, locals.debug, locals.debuginfo_level_rustc),
              !.rust_debuginfo_level_std =
                  with_defaults(locals.debuginfo_level, locals.debug, locals.debuginfo_level_std),
              !.rust_debuginfo_level_tools =
                  with_defaults(locals.debuginfo_level, locals.debug, locals.debuginfo_level_tools),
              !.rust_debuginfo_level_tests = UnwrapOr(locals.debuginfo_level_tests, 0),
              !.ignore_git = IgnoreGit(locals.ignore_git, config.channel)]
    /\ pc' = "done"
    /\ UNCHANGED <<inputs, toml, locals>>

---------------------------------------------------------------------------
(* Inputs *)

X86 == <<"x", "8", "6">>
Arm == <<"a", "r", "m">>
My == <<"m", "y">>
MyJson == <<"m", "y", ".", "j", "s", "o", "n">>
DirMyJson == <<"d", "/", "m", "y", ".", "j", "s", "o", "n">>
DotDot == <<".", ".">>
SrcDir == <<"/", "s", "r", "c", "/">>
OutDir == <<"/", "s", "r", "c", "/", ".", "/", "/", "o", "u", "t">>
Rustc == <<"/", "b", "/", "r", "c">>
Cargo == <<"/", "b", "/", "c", "g">>
Gcc == <<"g", "c", "c">>
Clang == <<"c", "l", "a", "n", "g">>

BaseEnv ==
    [BUILD |-> Some(X86), SRC |-> Some(SrcDir), BUILD_DIR |-> Some(OutDir),
     RUSTC |-> Some(Rustc), CARGO |-> Some(Cargo), RUSTFMT |-> None, cpus |-> 8]

BaseFlags ==
    [config |-> None, exclude |-> <<>>, rustc_error_format |-> None,
     json_output |-> FALSE, on_fail |-> None, stage |-> None, jobs |-> None,
     cmd |-> "build", incremental |-> FALSE, dry_run |-> FALSE, keep_stage |-> <<>>,
     deny_warnings |-> None, host |-> None, target |-> None, verbose |-> 0,
     llvm_skip_rebuild |-> None]

BaseFs == [exists |-> {DotDot}, mkdir_ok |-> TRUE]

EmptyTable == <<>>
\* a key of a table, there when the Option holds a value
Key(k, o) == IF IsSome(o) THEN k :> Unwrap(o) ELSE EmptyTable
\* a readable, well-formed file holding the table
FileOf(table) == [readable |-> TRUE, wellformed |-> TRUE, table |-> table]
BaseFile == FileOf(EmptyTable)
WithFile == [BaseFlags EXCEPT !.config = Some("config.toml")]

Input(fl, e, filesystem, f) == [flags |-> fl, env |-> e, fs |-> filesystem, file |-> f]

\* a document with every section and fields of every kind
FullTable ==
    "build" :> ("host" :> <<Arm>> @@ "verbose" :> 1 @@ "docs" :> FALSE
                @@ "nodejs" :> "node" @@ "rustc" :> Rustc @@ "build-dir" :> "ignored")
    @@ "install" :> ("prefix" :> "/usr" @@ "bindir" :> "sbin")
    @@ "llvm" :> ("ccache" :> <<"Bool", TRUE>> @@ "skip-rebuild" :> TRUE
                  @@ "assertions" :> TRUE @@ "targets" :> "X86")
    @@ "rust" :> ("debug" :> TRUE @@ "channel" :> "stable" @@ "incremental" :> TRUE
                  @@ "codegen-units" :> 0 @@ "codegen-backends" :> <<"llvm", "cranelift">>)
    @@ "target" :> (X86 :> ("cc" :> Gcc @@ "llvm-config" :> <<"l", "c">> @@ "no-std" :> TRUE))
    @@ "dist" :> ("src-tarball" :> FALSE @@ "upload-addr" :> "addr")

\* documents with a key that no struct has: at top level, in each section, in
\* a per-target entry, and a field name that is not in kebab case
UnknownKeyTables ==
    {FullTable @@ "bogus" :> EmptyTable,
     "build" :> ("verbose" :> 2 @@ "bogus" :> TRUE),
     "build" :> ("verbose" :> 2) @@ "install" :> ("bogus" :> TRUE),
     "build" :> ("verbose" :> 2) @@ "llvm" :> ("bogus" :> TRUE),
     "build" :> ("verbose" :> 2) @@ "rust" :> ("bogus" :> TRUE),
     "build" :> ("verbose" :> 2) @@ "rust" :> ("debug_assertions" :> TRUE),
     "build" :> ("verbose" :> 2) @@ "dist" :> ("bogus" :> TRUE),
     "build" :> ("verbose" :> 2) @@ "target" :> (X86 :> ("bogus" :> TRUE))}

\* documents whose keys are all fields
KnownKeyTables ==
    {EmptyTable,
     FullTable,
     "build" :> EmptyTable @@ "rust" :> EmptyTable,
     "build" :> ("host" :> <<DotDot>>),
     "build" :> ("host" :> <<MyJson, X86>> @@ "target" :> <<DirMyJson, MyJson>>),
     "build" :> ("target" :> <<X86, DotDot>>),
     "target" :> (DotDot :> EmptyTable),
     "target" :> (My :> EmptyTable @@ MyJson :> EmptyTable),
     "target" :> (MyJson :> ("cc" :> Gcc) @@ DirMyJson :> ("cc" :> Clang))}

Files ==
    {[readable |-> FALSE, wellformed |-> TRUE, table |-> EmptyTable],
     [readable |-> TRUE, wellformed |-> FALSE, table |-> EmptyTable],
     [readable |-> TRUE, wellformed |-> FALSE, table |-> FullTable]}
    \cup {FileOf(t) : t \in UnknownKeyTables \cup KnownKeyTables}

Envs ==
    {BaseEnv} \cup {[BaseEnv EXCEPT ![v] = None] : v \in RequiredEnv}
    \cup {[BaseEnv EXCEPT !.BUILD = Some(b)] : b \in {DotDot, MyJson}}

\* every way resolution can end: each environment, dry runs with and without
\* a directory, no file and each kind of file, specification files that exist
DocumentInputs ==
    {Input([BaseFlags EXCEPT !.config = c, !.dry_run = d], e,
           [exists |-> x, mkdir_ok |-> m], f) :
        c \in {Some("config.toml")}, d \in BOOLEAN, e \in Envs,
        x \in {{DotDot}, {DotDot, MyJson, DirMyJson}}, m \in BOOLEAN, f \in Files}
    \cup {Input([BaseFlags EXCEPT !.dry_run = d], e, [exists |-> {DotDot}, mkdir_ok |-> m], BaseFile) :
             d \in BOOLEAN, e \in Envs, m \in BOOLEAN}

InitWith(Inputs) ==
    /\ pc = "default_opts"
    /\ \E i \in Inputs : /\ flags = i.flags
                         /\ env = i.env
                         /\ fs = i.fs
                         /\ file = i.file
    /\ toml = TomlConfigDefault
    /\ locals = LocalsInit
    /\ config = ConfigDefault

Next ==
    \/ DefaultOpts
    \/ DefaultOptsPanic
    \/ ApplyFlags
    \/ DryRun
    \/ DryRunPanic
    \/ LoadToml
    \/ LoadTomlPanic
    \/ LoadTomlExit
    \/ ResolveHosts
    \/ ResolveHostsPanic
    \/ ApplyBuild
    \/ ApplyInstall
    \/ ApplyLlvm
    \/ ApplyRust
    \/ ApplyTarget
    \/ ApplyTargetPanic
    \/ ApplyDist
    \/ Infer

\* selections the command line carries (Flags::parse made them)
FlagSelections ==
    {[triple |-> intern_str(X86), file |-> None],
     [triple |-> intern_str(My), file |-> Some(intern_str(MyJson))]}
\* triples and specification files the document names
FileSelections == {Arm, MyJson}

\* fields that have nothing to do with the host and target lists
OtherBuild == "verbose" :> 1 @@ "docs" :> FALSE
OtherTable == "rust" :> ("debug" :> TRUE) @@ "target" :> (X86 :> EmptyTable)

\* host and target lists from the command line and from the document, with
\* and without a dry run, a stage and other document fields
TargetInputs ==
    {Input([WithFile EXCEPT !.host = fh, !.target = ft, !.dry_run = o,
                            !.stage = IF o THEN Some(2) ELSE None],
           BaseEnv,
           [exists |-> x, mkdir_ok |-> TRUE],
           FileOf((IF o THEN OtherTable ELSE EmptyTable)
                  @@ (IF o \/ IsSome(dh) \/ IsSome(dt)
                      THEN "build" :> ((IF o THEN OtherBuild ELSE EmptyTable)
                                       @@ Key("host", dh) @@ Key("target", dt))
                      ELSE EmptyTable))) :
        fh \in Option(SeqUpTo(FlagSelections, MaxList)),
        ft \in Option(SeqUpTo(FlagSelections, MaxList)),
        dh \in Option(SeqUpTo(FileSelections, MaxList)),
        dt \in Option(SeqUpTo(FileSelections, MaxList)),
        x \in {{DotDot}, {DotDot, MyJson}},
        o \in BOOLEAN}

\* a section of the document: absent, or there with the table
Section(name, o) == IF IsSome(o) THEN name :> Unwrap(o) ELSE EmptyTable
\* the tables of a section that may hold one key with a value of S
OneKey(k, S) == {EmptyTable} \cup {k :> v : v \in S}

\* the fields both the command line and the document supply (host and target
\* lists, llvm skip-rebuild, incremental), each absent and present on each side
MergeInputs ==
    {Input([WithFile EXCEPT !.host = fh, !.target = ft, !.llvm_skip_rebuild = fs_,
                            !.incremental = fi],
           BaseEnv, BaseFs,
           FileOf(Section("build", IF IsSome(dh) \/ IsSome(dt)
                                   THEN Some(Key("host", dh) @@ Key("target", dt))
                                   ELSE None)
                  @@ Section("llvm", dl) @@ Section("rust", dr))) :
        fh \in Option({<<[triple |-> intern_str(X86), file |-> None]>>}),
        ft \in Option({<<[triple |-> intern_str(My), file |-> None]>>}),
        dh \in Option({<<Arm>>}),
        dt \in Option({<<Arm, X86>>}),
        fs_ \in Option(BOOLEAN),
        fi \in BOOLEAN,
        dl \in Option(OneKey("skip-rebuild", BOOLEAN)),
        dr \in Option(OneKey("incremental", BOOLEAN))}

\* verbosity and deny-warnings on the command line and in the document
VerboseInputs ==
    {Input([WithFile EXCEPT !.verbose = fv, !.deny_warnings = fd],
           BaseEnv, BaseFs,
           FileOf(Section("build", db) @@ Section("rust", dr))) :
        fv \in 0..MaxVerbose,
        fd \in Option(BOOLEAN),
        db \in Option(OneKey("verbose", 0..MaxVerbose)),
        dr \in Option(OneKey("deny-warnings", BOOLEAN))}

Init == InitWith(DocumentInputs \cup TargetInputs)
Spec == Init /\ [][Next]_vars

\* the rust section's debug switch with the debuginfo levels, and with the
\* debug-assertions switches, each absent and present
DebugInputs ==
    {Input(WithFile, BaseEnv, BaseFs,
           FileOf("rust" :> (Key("debug", d) @@ Key("debuginfo-level", l)
                             @@ Key("debuginfo-level-rustc", lr)
                             @@ Key("debuginfo-level-std", ls)
                             @@ Key("debuginfo-level-tools", lt)
                             @@ Key("debuginfo-level-tests", le)))) :
        d \in Option(BOOLEAN),
        l \in Option(0..MaxLevel), lr \in Option(0..MaxLevel), ls \in Option(0..MaxLevel),
        lt \in Option(0..MaxLevel), le \in Option(0..MaxLevel)}
    \cup
    {Input(WithFile, BaseEnv, BaseFs,
           FileOf("rust" :> (Key("debug", d) @@ Key("debug-assertions", da)
                             @@ Key("debug-assertions-std", das)
                             @@ Key("debuginfo-level", l)))) :
        d \in Option(BOOLEAN), da \in Option(BOOLEAN), das \in Option(BOOLEAN),
        l \in Option(0..MaxLevel)}

InitDebug == InitWith(DocumentInputs \cup DebugInputs)
SpecDebug == InitDebug /\ [][Next]_vars

InitMerge == InitWith(DocumentInputs \cup MergeInputs \cup VerboseInputs)
SpecMerge == InitMerge /\ [][Next]_vars

\* the release channel and the git-ignore switch of the rust section, each
\* absent and present, and documents without a rust section
GitInputs ==
    {Input(WithFile, BaseEnv, BaseFs, FileOf(Section("rust", r) @@ Section("dist", d))) :
        r \in Option({Key("channel", c) @@ Key("ignore-git", g) @@ Key("debug", dbg) :
                         c \in Option({"dev", "stable", "nightly"}),
                         g \in Option(BOOLEAN),
                         dbg \in Option({TRUE})}),
        d \in Option({EmptyTable})}

\* job counts on the command line, on hosts of each size, with and without a
\* document that sets codegen units
JobsInputs ==
    {Input([BaseFlags EXCEPT !.jobs = j, !.config = c, !.dry_run = d],
           [BaseEnv EXCEPT !.cpus = n], BaseFs,
           FileOf(Section("rust", r))) :
        j \in Option(0..MaxJobs),
        n \in 1..MaxCpus,
        c \in Option({"config.toml"}),
        d \in BOOLEAN,
        r \in Option(OneKey("codegen-units", 0..MaxJobs))}

\* the document fields Config::parse writes straight into the record, each
\* with its section, its key and the field of Config it is written to
DirectFields ==
    {<<"build", "nodejs", "nodejs">>, <<"build", "gdb", "gdb">>,
     <<"build", "python", "python">>, <<"build", "low-priority", "low_priority">>,
     <<"build", "compiler-docs", "compiler_docs">>, <<"build", "docs", "docs">>,
     <<"build", "submodules", "submodules">>,
     <<"build", "fast-submodules", "fast_submodules">>,
     <<"build", "locked-deps", "locked_deps">>, <<"build", "vendor", "vendor">>,
     <<"build", "full-bootstrap", "full_bootstrap">>,
     <<"build", "extended", "extended">>, <<"build", "tools", "tools">>,
     <<"build", "verbose", "verbose">>, <<"build", "sanitizers", "sanitizers">>,
     <<"build", "profiler", "profiler">>,
     <<"build", "cargo-native-static", "cargo_native_static">>,
     <<"build", "configure-args", "configure_args">>,
     <<"build", "local-rebuild", "local_rebuild">>,
     <<"build", "print-step-timings", "print_step_timings">>,
     <<"build", "rustc", "initial_rustc">>, <<"build", "cargo", "initial_cargo">>,
     <<"install", "prefix", "prefix">>, <<"install", "sysconfdir", "sysconfdir">>,
     <<"install", "datadir", "datadir">>, <<"install", "docdir", "docdir">>,
     <<"install", "bindir", "bindir">>, <<"install", "libdir", "libdir">>,
     <<"install", "mandir", "mandir">>,
     <<"llvm", "ccache", "ccache">>, <<"llvm", "ninja", "ninja_in_file">>,
     <<"llvm", "optimize", "llvm_optimize">>, <<"llvm", "thin-lto", "llvm_thin_lto">>,
     <<"llvm", "release-debuginfo", "llvm_release_debuginfo">>,
     <<"llvm", "version-check", "llvm_version_check">>,
     <<"llvm", "static-libstdcpp", "llvm_static_stdcpp">>,
     <<"llvm", "link-shared", "llvm_link_shared">>,
     <<"llvm", "targets", "llvm_targets">>,
     <<"llvm", "experimental-targets", "llvm_experimental_targets">>,
     <<"llvm", "link-jobs", "llvm_link_jobs">>,
     <<"llvm", "version-suffix", "llvm_version_suffix">>,
     <<"llvm", "clang-cl", "llvm_clang_cl">>, <<"llvm", "cflags", "llvm_cflags">>,
     <<"llvm", "cxxflags", "llvm_cxxflags">>, <<"llvm", "ldflags", "llvm_ldflags">>,
     <<"llvm", "use-libcxx", "llvm_use_libcxx">>,
     <<"llvm", "use-linker", "llvm_use_linker">>,
     <<"llvm", "allow-old-toolchain", "llvm_allow_old_toolchain">>,
     <<"rust", "new-symbol-mangling", "rust_new_symbol_mangling">>,
     <<"rust", "optimize-tests", "rust_optimize_tests">>,
     <<"rust", "codegen-tests", "codegen_tests">>, <<"rust", "rpath", "rust_rpath">>,
     <<"rust", "jemalloc", "jemalloc">>,
     <<"rust", "test-compare-mode", "test_compare_mode">>,
     <<"rust", "llvm-libunwind", "llvm_libunwind">>,
     <<"rust", "backtrace", "backtrace">>, <<"rust", "channel", "channel">>,
     <<"rust", "dist-src", "rust_dist_src">>,
     <<"rust", "verbose-tests", "verbose_tests">>,
     <<"rust", "incremental", "incremental">>, <<"rust", "use-lld", "use_lld">>,
     <<"rust", "lld", "lld_enabled">>, <<"rust", "llvm-tools", "llvm_tools_enabled">>,
     <<"rust", "parallel-compiler", "rustc_parallel">>,
     <<"rust", "default-linker", "rustc_default_linker">>,
     <<"rust", "musl-root", "musl_root">>,
     <<"rust", "save-toolstates", "save_toolstates">>,
     <<"rust", "deny-warnings", "deny_warnings">>,
     <<"rust", "backtrace-on-ice", "backtrace_on_ice">>,
     <<"rust", "verify-llvm-ir", "rust_verify_llvm_ir">>,
     <<"rust", "thin-lto-import-instr-limit", "rust_thin_lto_import_instr_limit">>,
     <<"rust", "remap-debuginfo", "rust_remap_debuginfo">>,
     <<"rust", "control-flow-guard", "control_flow_guard">>,
     <<"rust", "codegen-backends", "rust_codegen_backends">>,
     <<"rust", "codegen-units", "rust_codegen_units">>,
     <<"rust", "codegen-units-std", "rust_codegen_units_std">>,
     <<"dist", "sign-folder", "dist_sign_folder">>,
     <<"dist", "gpg-password-file", "dist_gpg_password_file">>,
     <<"dist", "upload-addr", "dist_upload_addr">>,
     <<"dist", "src-tarball", "rust_dist_src">>,
     <<"dist", "missing-tools", "missing_tools">>}

DirectSections == {"build", "install", "llvm", "rust", "dist"}
\* the keys of a section that are written straight into the record
DirectKeys(section) == {e[2] : e \in {d \in DirectFields : d[1] = section}}
\* the field a key of a section is written to
FieldOf(section, key) ==
    (CHOOSE e \in DirectFields : e[1] = section /\ e[2] = key)[3]

\* a value of the type of the key; b is the value of the switches
FrameValue(section, key, b) ==
    CASE FieldOf(section, key) \in ConfigBoolFields -> b
      [] key \in {"verbose", "link-jobs", "codegen-units", "codegen-units-std",
                  "thin-lto-import-instr-limit"} -> 1
      [] key \in {"configure-args", "codegen-backends", "tools"} -> <<"x">>
      [] key = "ccache" -> <<"Bool", b>>
      [] key \in {"rustc", "cargo"} -> <<"/", "t">>
      [] key = "channel" -> "stable"
      [] OTHER -> "v"

\* the table of a section that holds the given keys
FrameTable(section, keys, b) == [k \in keys |-> FrameValue(section, k, b)]

\* the sets of keys a section is tried with: none, all, all but one, one
FrameKeySets(section) ==
    {{}, DirectKeys(section)}
    \cup {DirectKeys(section) \ {k} : k \in DirectKeys(section)}
    \cup {{k} : k \in DirectKeys(section)}

\* what the command line carries next to the document
FrameFlags ==
    {WithFile,
     [WithFile EXCEPT !.deny_warnings = Some(FALSE), !.incremental = TRUE, !.verbose = 1],
     [WithFile EXCEPT !.deny_warnings = Some(TRUE), !.verbose = MaxVerbose]}

\* a section with its choice of keys: absent, or there with a set of keys
FrameChoices ==
    UNION {{<<s, None>>} \cup {<<s, Some(ks)>> : ks \in FrameKeySets(s)} : s \in DirectSections}

\* one section absent or present with each set of its keys, the other
\* sections all absent or all present with every key
FrameInputs ==
    {Input(fl, BaseEnv, BaseFs,
           FileOf((IF IsSome(c[2]) THEN c[1] :> FrameTable(c[1], Unwrap(c[2]), b)
                   ELSE EmptyTable)
                  @@ (IF others
                      THEN [o \in DirectSections \ {c[1]} |-> FrameTable(o, DirectKeys(o), b)]
                      ELSE EmptyTable))) :
        c \in FrameChoices, fl \in FrameFlags, b \in BOOLEAN, others \in BOOLEAN}

\* triples whose text has and has not "-none" or "nvptx" in it, and a
\* specification file in a directory whose name has
ANone == <<"a", "-", "n", "o", "n", "e">>
NoneA == <<"n", "o", "n", "e", "-", "a">>
Nvptx == <<"n", "v", "p", "t", "x", "6", "4">>
Nvpt == <<"n", "v", "p", "t">>
NvptxDirMyJson == <<"n", "v", "p", "t", "x", "/", "m", "y", ".", "j", "s", "o", "n">>
TargetKeys == {X86, ANone, NoneA, Nvptx, Nvpt, MyJson, NvptxDirMyJson}

\* the path fields of a per-target entry, each with the field of Target
TargetPathFields ==
    {<<"cc", "cc">>, <<"cxx", "cxx">>, <<"ar", "ar">>, <<"ranlib", "ranlib">>,
     <<"linker", "linker">>, <<"llvm-config", "llvm_config">>,
     <<"llvm-filecheck", "llvm_filecheck">>, <<"android-ndk", "ndk">>,
     <<"musl-root", "musl_root">>, <<"musl-libdir", "musl_libdir">>,
     <<"wasi-root", "wasi_root">>, <<"qemu-rootfs", "qemu_rootfs">>}
TargetPathKeys == {e[1] : e \in TargetPathFields}

\* a relative and an absolute path
RelPath == <<"l", "/", "c">>
AbsPath == <<"/", "l">>

\* the entries of the target section: no-std absent and present, no path
\* field, each one alone and all of them, relative and absolute
TargetEntries ==
    {Key("no-std", n) @@ [k \in ks |-> p] :
        n \in Option(BOOLEAN),
        ks \in {{}, TargetPathKeys} \cup {{k} : k \in TargetPathKeys},
        p \in {RelPath, AbsPath}}

\* documents with one per-target entry, and with two
PerTargetInputs ==
    {Input(WithFile, BaseEnv, [exists |-> x, mkdir_ok |-> TRUE],
           FileOf("target" :> (t :> cfg))) :
        t \in TargetKeys, cfg \in TargetEntries,
        x \in {{DotDot}, {DotDot, MyJson, NvptxDirMyJson}}}
    \cup
    {Input(WithFile, BaseEnv, BaseFs,
           FileOf("target" :> (ANone :> ("no-std" :> FALSE @@ "cc" :> RelPath)
                               @@ t :> cfg))) :
        t \in {X86, Nvptx}, cfg \in {c \in TargetEntries : DOMAIN c \cap TargetPathKeys # {}}}

InitTarget == InitWith(DocumentInputs \cup PerTargetInputs)
SpecTarget == InitTarget /\ [][Next]_vars

InitFrame == InitWith(DocumentInputs \cup GitInputs \cup JobsInputs \cup FrameInputs)
SpecFrame == InitFrame /\ [][Next]_vars

---------------------------------------------------------------------------
(* What the claims speak of *)

\* a document was supplied (--config) and could be read
DocSupplied == IsSome(flags.config) /\ file.readable
\* the document supplies section.key
DocHas(section, key) ==
    /\ DocSupplied
    /\ section \in DOMAIN file.table
    /\ key \in DOMAIN file.table[section]
DocVal(section, key) == file.table[section][key]
\* the document's value as an Option
DocOpt(section, key) == IF DocHas(section, key) THEN Some(DocVal(section, key)) ELSE None
\* the selections of a list of the document
SelectionsOf(list) == [i \in DOMAIN list |-> from_user(fs, list[i])]

Returned == pc = "done"
\* the blocks of Config::parse in source order
Blocks ==
    <<"default_opts", "flags", "dry_run", "load", "hosts", "build", "install",
      "llvm", "rust", "target", "dist", "infer", "done">>
\* Config::parse is running, or has returned, and the block is behind it
After(block) ==
    \E i, j \in DOMAIN Blocks : Blocks[i] = block /\ Blocks[j] = pc /\ i < j
Failed == pc \in {"panic", "exit2"}

---------------------------------------------------------------------------
(* C2: after Config::parse the host list is the command line's host list if  *)
(* one was given, else the document's build.host list if present, else the   *)
(* list of the build host alone; the target list is the command line's       *)
(* target list if given, else the document's build.target list if present,   *)
(* else a copy of the host list as just resolved.                            *)
C2_HostTargetPrecedence ==
    Returned =>
        /\ config.hosts =
              IF IsSome(flags.host) THEN Unwrap(flags.host)
              ELSE IF DocHas("build", "host") THEN SelectionsOf(DocVal("build", "host"))
              ELSE <<config.build>>
        /\ config.targets =
              IF IsSome(flags.target) THEN Unwrap(flags.target)
              ELSE IF DocHas("build", "target") THEN SelectionsOf(DocVal("build", "target"))
              ELSE config.hosts

\* the targets fall back on a host list that came from the document and is
\* not the build host
C2_Witness ==
    /\ Returned
    /\ IsNone(flags.host) /\ DocHas("build", "host")
    /\ IsNone(flags.target) /\ ~DocHas("build", "target")
    /\ config.targets = config.hosts
    /\ config.hosts # <<config.build>>
    /\ config.hosts # <<>>

(* C3: after Config::parse skip_only_host_steps is true if and only if       *)
(* neither the command line nor the document supplies a host list and at     *)
(* least one of them supplies a target list; the host list is then the build *)
(* host alone; nothing else sets the flag, at any point of the resolution.   *)
C3_SkipOnlyHostSteps ==
    LET only_targets ==
            /\ IsNone(flags.host) /\ ~DocHas("build", "host")
            /\ IsSome(flags.target) \/ DocHas("build", "target")
    IN  /\ Returned => (config.skip_only_host_steps <=> only_targets)
        /\ Returned /\ config.skip_only_host_steps => config.hosts = <<config.build>>
        /\ config.skip_only_host_steps => only_targets

\* the flag is set by a target list of the document alone, in a dry run
C3_Witness ==
    /\ Returned
    /\ config.skip_only_host_steps
    /\ IsNone(flags.target)
    /\ config.dry_run
    /\ config.hosts = <<config.build>>
    /\ config.targets # config.hosts


(* C1, as amended: for the host list, the target list and llvm skip-rebuild, *)
(* whenever the command line and the document both supply a value the        *)
(* record's field is the command line's value.  The incremental flag is      *)
(* merged, not overridden: with a document value present it is true exactly  *)
(* when the command line's flag or the document's value is true.             *)
C1_OverrideWins ==
    Returned =>
        /\ IsSome(flags.host) /\ DocHas("build", "host")
              => config.hosts = Unwrap(flags.host)
        /\ IsSome(flags.target) /\ DocHas("build", "target")
              => config.targets = Unwrap(flags.target)
        /\ IsSome(flags.llvm_skip_rebuild) /\ DocHas("llvm", "skip-rebuild")
              => config.llvm_skip_rebuild = Unwrap(flags.llvm_skip_rebuild)
        /\ DocHas("rust", "incremental")
              => config.incremental = (flags.incremental \/ DocVal("rust", "incremental"))

\* C1 as stated: the incremental flag too equals the command line's value
\* whenever the document supplies one
C1_Original ==
    Returned =>
        /\ IsSome(flags.host) /\ DocHas("build", "host")
              => config.hosts = Unwrap(flags.host)
        /\ IsSome(flags.target) /\ DocHas("build", "target")
              => config.targets = Unwrap(flags.target)
        /\ IsSome(flags.llvm_skip_rebuild) /\ DocHas("llvm", "skip-rebuild")
              => config.llvm_skip_rebuild = Unwrap(flags.llvm_skip_rebuild)
        /\ DocHas("rust", "incremental")
              => config.incremental = flags.incremental

\* all four fields come from both sides with different values, and the
\* command line's skip-rebuild = false stands against the document's true
C1_Witness ==
    /\ Returned
    /\ IsSome(flags.host) /\ DocHas("build", "host")
    /\ SelectionsOf(DocVal("build", "host")) # Unwrap(flags.host)
    /\ IsSome(flags.target) /\ DocHas("build", "target")
    /\ flags.llvm_skip_rebuild = Some(FALSE)
    /\ DocHas("llvm", "skip-rebuild") /\ DocVal("llvm", "skip-rebuild")
    /\ ~config.llvm_skip_rebuild
    /\ flags.incremental
    /\ DocHas("rust", "incremental") /\ ~DocVal("rust", "incremental")
    /\ config.incremental

(* C4: the resolved verbosity is the larger of the command line's level and  *)
(* the document's build.verbose, the latter taken as 0 when absent; it is    *)
(* never lower than either.                                                  *)
C4_VerboseIsMax ==
    Returned =>
        LET from_file == IF DocHas("build", "verbose") THEN DocVal("build", "verbose") ELSE 0
        IN  /\ config.verbose \in {flags.verbose, from_file}
            /\ config.verbose >= flags.verbose
            /\ config.verbose >= from_file

\* the document raises the level above the command line's
C4_Witness ==
    /\ Returned
    /\ DocHas("build", "verbose")
    /\ flags.verbose > 0
    /\ DocVal("build", "verbose") > flags.verbose
    /\ config.verbose = DocVal("build", "verbose")


\* what C9 says a component's level is
C9_Level(specific) ==
    IF DocHas("rust", specific) THEN DocVal("rust", specific)
    ELSE IF DocHas("rust", "debuginfo-level") THEN DocVal("rust", "debuginfo-level")
    ELSE IF DocHas("rust", "debug") /\ DocVal("rust", "debug") = TRUE THEN 1
    ELSE 0

(* C9: the debuginfo level of the compiler, of the standard library and of   *)
(* the tools is the component's own document value if present, else          *)
(* rust.debuginfo-level if present, else 1 if rust.debug is true and 0       *)
(* otherwise; the level of the tests is rust.debuginfo-level-tests if        *)
(* present and 0 otherwise.                                                  *)
C9_DebuginfoLevels ==
    Returned =>
        /\ config.rust_debuginfo_level_rustc = C9_Level("debuginfo-level-rustc")
        /\ config.rust_debuginfo_level_std = C9_Level("debuginfo-level-std")
        /\ config.rust_debuginfo_level_tools = C9_Level("debuginfo-level-tools")
        /\ config.rust_debuginfo_level_tests =
              IF DocHas("rust", "debuginfo-level-tests")
              THEN DocVal("rust", "debuginfo-level-tests") ELSE 0

\* debug = true and no explicit level: 1, 1, 1 and tests 0
C9_Witness ==
    /\ Returned
    /\ DocHas("rust", "debug") /\ DocVal("rust", "debug")
    /\ ~DocHas("rust", "debuginfo-level")
    /\ ~DocHas("rust", "debuginfo-level-rustc")
    /\ ~DocHas("rust", "debuginfo-level-std")
    /\ ~DocHas("rust", "debuginfo-level-tools")
    /\ ~DocHas("rust", "debuginfo-level-tests")
    /\ config.rust_debuginfo_level_rustc = 1
    /\ config.rust_debuginfo_level_std = 1
    /\ config.rust_debuginfo_level_tools = 1
    /\ config.rust_debuginfo_level_tests = 0

(* C10: the debug-assertions flag is rust.debug-assertions if present, else  *)
(* true exactly when rust.debug is true; the standard library's flag is      *)
(* rust.debug-assertions-std if present, else the resolved debug-assertions  *)
(* flag.                                                                     *)
C10_DebugAssertions ==
    Returned =>
        /\ config.rust_debug_assertions =
              IF DocHas("rust", "debug-assertions") THEN DocVal("rust", "debug-assertions")
              ELSE (DocHas("rust", "debug") /\ DocVal("rust", "debug") = TRUE)
        /\ config.rust_debug_assertions_std =
              IF DocHas("rust", "debug-assertions-std")
              THEN DocVal("rust", "debug-assertions-std")
              ELSE config.rust_debug_assertions

\* debug = true with debug-assertions = false: the standard library follows
\* the resolved flag, not the debug switch
C10_Witness ==
    /\ Returned
    /\ DocHas("rust", "debug") /\ DocVal("rust", "debug")
    /\ DocHas("rust", "debug-assertions") /\ ~DocVal("rust", "debug-assertions")
    /\ ~DocHas("rust", "debug-assertions-std")
    /\ ~config.rust_debug_assertions
    /\ ~config.rust_debug_assertions_std


\* the table has a key no struct has: at top level, in a section, or in a
\* per-target entry
HasUnknownKey(table) ==
    \/ \E k \in DOMAIN table : k \notin TomlConfigKeys
    \/ \E sec \in {"build", "install", "llvm", "rust", "dist"} \cap DOMAIN table :
          \E k \in DOMAIN table[sec] : k \notin SectionKeys(sec)
    \/ /\ "target" \in DOMAIN table
       /\ \E t \in DOMAIN table["target"] :
             \E k \in DOMAIN table["target"][t] : k \notin TomlTargetKeys
\* the document is malformed or has a key the schema does not recognise
BadDocument == ~file.wellformed \/ HasUnknownKey(file.table)

NoFileStem(text) == text \in fs.exists /\ IsNone(file_stem(text))
\* a required bootstrap parameter is absent
MissingParameter == \E v \in RequiredEnv : IsNone(env[v])
\* the document that is read names such a path where from_user reads it
NoStemInDocument ==
    \/ IsNone(flags.host) /\ DocHas("build", "host")
          /\ \E i \in DOMAIN DocVal("build", "host") : NoFileStem(DocVal("build", "host")[i])
    \/ IsNone(flags.target) /\ DocHas("build", "target")
          /\ \E i \in DOMAIN DocVal("build", "target") : NoFileStem(DocVal("build", "target")[i])
    \/ DocSupplied /\ "target" \in DOMAIN file.table
          /\ \E t \in DOMAIN file.table["target"] : NoFileStem(t)

(* C6, as amended: resolution fails only when a required bootstrap parameter *)
(* is absent, BUILD or a host, target or per-target string of the document   *)
(* that from_user reads names an existing path without a file stem, the      *)
(* directory of a dry run cannot be created, the supplied document cannot be *)
(* read, or it fails to parse or to validate.  For every other input each    *)
(* block of Config::parse goes on to the next and a record is returned.      *)
C6_FailureCauses ==
    LET cause ==
            \/ MissingParameter
            \/ IsSome(env["BUILD"]) /\ NoFileStem(Unwrap(env["BUILD"]))
            \/ flags.dry_run /\ ~fs.mkdir_ok
            \/ IsSome(flags.config) /\ ~file.readable
            \/ DocSupplied /\ BadDocument
            \/ NoStemInDocument
    IN  /\ Failed => cause
        /\ ~cause /\ ~Returned => ENABLED Next
        /\ pc = "exit2" => DocSupplied /\ BadDocument

\* C6 as stated: resolution fails only if the document fails to parse or to
\* validate, or a required bootstrap parameter is absent
C6_Original == Failed => (DocSupplied /\ BadDocument) \/ MissingParameter

\* a panic with every parameter present and a document that reads and parses:
\* the document's host list names the existing path ".."
C6_Witness ==
    /\ pc = "panic"
    /\ ~MissingParameter
    /\ DocSupplied /\ ~BadDocument
    /\ ~(flags.dry_run /\ ~fs.mkdir_ok)
    /\ DocHas("build", "host")
    /\ \E i \in DOMAIN DocVal("build", "host") : NoFileStem(DocVal("build", "host")[i])

\* the selections the record holds
Selections ==
    {config.build} \cup Range(config.hosts) \cup Range(config.targets)
    \cup MapKeys(config.target_config)
\* the keys of the document's target section
DocTargets == IF DocSupplied /\ "target" \in DOMAIN file.table
              THEN DOMAIN file.table["target"] ELSE {}

(* C7, as amended: two TargetSelection values are equal if and only if their *)
(* triples are equal and their file components are equal, so the selection   *)
(* of an existing file my.json and that of the bare triple my are unequal    *)
(* and are two keys of target_config: every per-target entry of the document *)
(* has a key of its own.  Only the comparison with a &str looks at the       *)
(* triple alone.                                                             *)
C7_EqualityIsFieldwise ==
    /\ \A a, b \in Selections :
          /\ TargetSelectionEq(a, b) <=>
                /\ Deref(a.triple) = Deref(b.triple)
                /\ IsSome(a.file) = IsSome(b.file)
                /\ IsSome(a.file) => Deref(Unwrap(a.file)) = Deref(Unwrap(b.file))
          /\ TargetSelectionEqStr(a, Deref(b.triple)) <=> Deref(a.triple) = Deref(b.triple)
    /\ After("target") =>
          /\ Cardinality(config.target_config) = Cardinality(DocTargets)
          /\ \A t \in DocTargets : from_user(fs, t) \in MapKeys(config.target_config)

\* C7 as stated: selections are equal exactly when their triples are, and
\* selections of one triple are one key of the map
C7_Original ==
    \A a, b \in Selections :
        TargetSelectionEq(a, b) <=> Deref(a.triple) = Deref(b.triple)

\* the record holds, as two keys of target_config, the selection of the
\* existing file my.json and that of the bare triple my
C7_Witness ==
    /\ Returned
    /\ [triple |-> intern_str(My), file |-> None] \in MapKeys(config.target_config)
    /\ [triple |-> intern_str(My), file |-> Some(intern_str(MyJson))]
          \in MapKeys(config.target_config)
    /\ Cardinality(config.target_config) = 2

\* the base name of a path without its extension: the text after the last
\* "/", up to its last "." unless that leads it or there is none
IsStemOf(stem, text) ==
    \E base \in {SubSeq(text, i, Len(text)) : i \in 1..Len(text)} :
        /\ \A i \in DOMAIN base : base[i] # "/"
        /\ Len(base) = Len(text) \/ text[Len(text) - Len(base)] = "/"
        /\ IF \E i \in 2..Len(base) : base[i] = "."
           THEN \E ext \in {SubSeq(base, i, Len(base)) : i \in 2..(Len(base) + 1)} :
                   /\ \A i \in DOMAIN ext : ext[i] # "."
                   /\ base = stem \o <<".">> \o ext
           ELSE stem = base

\* what C8 says from_user(text) is
IsSelectionOf(sel, text) ==
    IF text \in fs.exists
    THEN /\ IsStemOf(Deref(sel.triple), text)
         /\ sel.file = Some(intern_str(text))
    ELSE /\ Deref(sel.triple) = text
         /\ sel.file = None

\* the texts from_user was called on, each with the selection it gave
FromUserCalls ==
    (IF After("default_opts") THEN {<<Unwrap(env["BUILD"]), config.build>>} ELSE {})
    \cup (IF After("hosts") /\ IsNone(flags.host) /\ DocHas("build", "host")
          THEN {<<DocVal("build", "host")[i], config.hosts[i]>> :
                   i \in DOMAIN DocVal("build", "host")}
          ELSE {})
    \cup (IF After("hosts") /\ IsNone(flags.target) /\ DocHas("build", "target")
          THEN {<<DocVal("build", "target")[i], config.targets[i]>> :
                   i \in DOMAIN DocVal("build", "target")}
          ELSE {})

(* C8: from_user(text) of a text that names an existing path is the          *)
(* selection whose triple is the path's base name without extension and      *)
(* whose file is the text; of any other text it is the selection whose       *)
(* triple is the text and whose file is empty; calls with the same text      *)
(* under the same filesystem give equal selections.                          *)
C8_FromUser ==
    /\ \A c \in FromUserCalls : IsSelectionOf(c[2], c[1])
    /\ \A c, d \in FromUserCalls : c[1] = d[1] => TargetSelectionEq(c[2], d[2])
    /\ After("target") =>
          \A t \in DocTargets : \E sel \in MapKeys(config.target_config) : IsSelectionOf(sel, t)

\* BUILD and a host of the document are the same existing file my.json:
\* triple my, file my.json, both times; a target in a directory gives my too
C8_Witness ==
    /\ Returned
    /\ env["BUILD"] = Some(MyJson)
    /\ MyJson \in fs.exists
    /\ config.build = [triple |-> intern_str(My), file |-> Some(intern_str(MyJson))]
    /\ IsNone(flags.host) /\ DocHas("build", "host")
    /\ DocVal("build", "host")[1] = MyJson
    /\ config.hosts[1] = config.build
    /\ config.hosts[2] = [triple |-> intern_str(X86), file |-> None]
    /\ config.targets[1] = [triple |-> intern_str(My), file |-> Some(intern_str(DirMyJson))]


---------------------------------------------------------------------------
(* C11: the record's ignore_git is the document's rust.ignore-git if it is   *)
(* there; otherwise it is true exactly when the resolved channel (the        *)
(* document's rust.channel if there, else "dev") equals "dev".  So without a *)
(* channel and an ignore-git it is true, and with channel "stable" and no    *)
(* ignore-git it is false.                                                   *)
C11_IgnoreGit ==
    Returned =>
        LET channel == IF DocHas("rust", "channel") THEN DocVal("rust", "channel") ELSE "dev"
        IN  /\ config.channel = channel
            /\ config.ignore_git =
                  IF DocHas("rust", "ignore-git") THEN DocVal("rust", "ignore-git")
                  ELSE channel = "dev"

\* channel "stable" without an ignore-git resolves to false
C11_Witness ==
    /\ Returned
    /\ DocHas("rust", "channel") /\ DocVal("rust", "channel") = "stable"
    /\ ~DocHas("rust", "ignore-git")
    /\ ~config.ignore_git

(* C12: once the command line's fields are applied, a job count of 0 has     *)
(* become the host's number of CPUs, which is positive; a nonzero job count  *)
(* n is n; no job count stays none.                                          *)
C12_Jobs ==
    After("flags") =>
        /\ IsNone(flags.jobs) => IsNone(config.jobs)
        /\ IsSome(flags.jobs) /\ Unwrap(flags.jobs) = 0
              => config.jobs = Some(env.cpus) /\ Unwrap(config.jobs) > 0
        /\ IsSome(flags.jobs) /\ Unwrap(flags.jobs) # 0
              => config.jobs = flags.jobs

\* a job count of 0 on a host with more than one CPU
C12_Witness ==
    /\ Returned
    /\ flags.jobs = Some(0)
    /\ env.cpus > 1
    /\ config.jobs = Some(env.cpus)

\* the value a field of the record has before the document is applied: the
\* default of Config::default_opts, or what the command line made of it
Prior(field) ==
    CASE field = "verbose"       -> flags.verbose
      [] field = "incremental"   -> flags.incremental
      [] field = "deny_warnings" -> set(default_opts(env, fs).deny_warnings, flags.deny_warnings)
      [] field = "bindir"        -> Bin
      [] OTHER                   -> default_opts(env, fs)[field]

\* no field of the document is written to the field of the record
NoneSupplied(field) ==
    \A e \in DirectFields : e[3] = field => ~DocHas(e[1], e[2])

(* C15, as amended: for every field of the build, install, llvm, rust and    *)
(* dist sections that is written straight into the record, if every field of *)
(* the document that is written to the same field of the record is absent    *)
(* (its section may be absent as a whole), the field of the returned record  *)
(* has the value it had before the document was applied: the default, or the *)
(* command line's value.  rust_dist_src is written by both rust.dist-src and *)
(* dist.src-tarball, and keeps its value only when both are absent.          *)
C15_SetIfPresent ==
    Returned =>
        \A e \in DirectFields : NoneSupplied(e[3]) => config[e[3]] = Prior(e[3])

\* C15 as stated: the absence of the one field of the document is enough
C15_Original ==
    Returned =>
        \A e \in DirectFields : ~DocHas(e[1], e[2]) => config[e[3]] = Prior(e[3])

\* a document whose install section has every field but bindir and that has
\* no llvm and no rust section, and a command line that changed
\* deny_warnings, incremental and verbose
C15_Witness ==
    /\ Returned
    /\ DocSupplied
    /\ "install" \in DOMAIN file.table /\ ~DocHas("install", "bindir")
    /\ DocHas("install", "prefix")
    /\ "llvm" \notin DOMAIN file.table
    /\ "rust" \notin DOMAIN file.table
    /\ flags.deny_warnings = Some(FALSE) /\ flags.incremental /\ flags.verbose = 1
    /\ config.prefix # None
    /\ config.bindir = Bin
    /\ ~config.deny_warnings
    /\ config.incremental
    /\ config.verbose = 1
    /\ config.llvm_optimize
---------------------------------------------------------------------------
\* the per-target entries of the document, by their keys
DocEntries == IF DocSupplied /\ "target" \in DOMAIN file.table
              THEN file.table["target"] ELSE EmptyTable
\* the Target stored under the selection of the key
StoredTarget(k) ==
    (CHOOSE pr \in config.target_config : pr[1] = from_user(fs, k))[2]
\* the text has the other text in it, at some position
HasText(text, part) ==
    \E i \in 0..(Len(text) - Len(part)) :
        \A j \in 1..Len(part) : text[i + j] = part[j]

(* C13: for every per-target entry of the document, the stored no_std is the *)
(* entry's no-std if it is there; otherwise it is true exactly when the text *)
(* of the entry's triple, as the document writes it, has "-none" or "nvptx"  *)
(* in it.  An explicit no-std = false stands against an inferred true.       *)
C13_NoStd ==
    After("target") =>
        \A k \in DOMAIN DocEntries :
            /\ \E pr \in config.target_config : pr[1] = from_user(fs, k)
            /\ StoredTarget(k).no_std =
                  IF "no-std" \in DOMAIN DocEntries[k] THEN DocEntries[k]["no-std"]
                  ELSE \/ HasText(k, <<"-", "n", "o", "n", "e">>)
                       \/ HasText(k, <<"n", "v", "p", "t", "x">>)

\* an nvptx triple without no-std is stored with no_std, and a "-none"
\* triple with no-std = false is stored without
C13_Witness ==
    /\ Returned
    /\ Nvptx \in DOMAIN DocEntries /\ "no-std" \notin DOMAIN DocEntries[Nvptx]
    /\ StoredTarget(Nvptx).no_std
    /\ ANone \in DOMAIN DocEntries /\ DocEntries[ANone]["no-std"] = FALSE
    /\ ~StoredTarget(ANone).no_std

\* the source directory joined with a path: an absolute path stands alone
JoinedWithSrc(p) == IF p[1] = "/" THEN p ELSE config.src \o <<"/">> \o p
\* the fields of a per-target entry that are joined with the source directory
JoinedKeys == {"llvm-config", "llvm-filecheck", "android-ndk"}

(* C14, as amended: for every per-target entry of the document, a supplied   *)
(* llvm-config, llvm-filecheck or android-ndk is stored as the source        *)
(* directory joined with the supplied path; a supplied cc, cxx, ar, ranlib,  *)
(* linker, musl-root, musl-libdir, wasi-root or qemu-rootfs is stored as the *)
(* document gives it.                                                        *)
C14_TargetPaths ==
    After("target") =>
        \A k \in DOMAIN DocEntries : \A e \in TargetPathFields :
            e[1] \in DOMAIN DocEntries[k] =>
                StoredTarget(k)[e[2]] =
                    IF e[1] \in JoinedKeys THEN Some(JoinedWithSrc(DocEntries[k][e[1]]))
                    ELSE Some(DocEntries[k][e[1]])

\* C14 as stated: every supplied path field is stored joined with the source
\* directory
C14_Original ==
    After("target") =>
        \A k \in DOMAIN DocEntries : \A e \in TargetPathFields :
            e[1] \in DOMAIN DocEntries[k] =>
                StoredTarget(k)[e[2]] = Some(JoinedWithSrc(DocEntries[k][e[1]]))

\* an entry with all twelve relative paths: llvm-config under the source
\* directory, cc as written
C14_Witness ==
    /\ Returned
    /\ X86 \in DOMAIN DocEntries
    /\ TargetPathKeys \subseteq DOMAIN DocEntries[X86]
    /\ DocEntries[X86]["cc"] = RelPath
    /\ StoredTarget(X86).llvm_config = Some(<<"/", "s", "r", "c", "/", "l", "/", "c">>)
    /\ StoredTarget(X86).cc = Some(RelPath)

---------------------------------------------------------------------------
(* C16: the record's incremental flag is true if and only if the command     *)
(* line's incremental flag is true or the document has rust.incremental =    *)
(* true.  A rust.incremental = false never clears a flag the command line    *)
(* set, and an absent value leaves the command line's value.                 *)
C16_IncrementalOneWay ==
    /\ Returned =>
          (config.incremental <=>
              flags.incremental \/ DocOpt("rust", "incremental") = Some(TRUE))
    /\ After("flags") /\ flags.incremental => config.incremental

\* the command line asks for incremental and the document says false
C16_Witness ==
    /\ Returned
    /\ flags.incremental
    /\ DocOpt("rust", "incremental") = Some(FALSE)
    /\ config.incremental

=============================================================================
